---- MODULE Spec2Model ----
(***************************************************************************)
(* Streaming encoder of zstd-rs (src/src/stream/encoder.rs): Encoder<W>,   *)
(* its Write implementation (write / flush), finish, and the               *)
(* AutoFinishEncoder wrapper that finishes the stream on drop.             *)
(*                                                                         *)
(* The zstd ZBUFF engine and the downstream writer are collaborators of    *)
(* the encoder; they are modelled by the operators of the sections         *)
(* "Engine" and "Sink" as the specification describes them: a lossless     *)
(* engine that buffers input and output internally, and a sink with a      *)
(* write-all-or-fail contract.                                             *)
(***************************************************************************)
EXTENDS Integers, Sequences, FiniteSets, TLC

\* ------------------------------------------------------------------ bounds
\* total number of input bytes handed to write over one encoder's life
MaxInput == 2
\* number of engine / sink failures injected in one run
MaxFaults == 1
\* size of the internal output buffer (ZBUFF_recommendedCOutSize)
BufCap == 2
\* size of the engine's internal input buffer (one block)
InCap == 2

Byte == 0..1

Min(a, b) == IF a < b THEN a ELSE b

\* ------------------------------------------------------------------ Engine
\* Symbols of the compressed stream: a frame header carrying the dictionary
\* id, and per block a header carrying its length, one literal per input
\* byte (stored complemented) and a checksum; then the end-of-frame mark.
Hdr(d) == [t |-> "hdr", v |-> d]
Blk(n) == [t |-> "blk", v |-> n]
Lit(x) == [t |-> "lit", v |-> 1 - x]
Sum(n) == [t |-> "sum", v |-> n % 2]
EndMark == [t |-> "end", v |-> 0]
Junk == [t |-> "junk", v |-> 0]

RECURSIVE Total(_)
Total(b) == IF b = <<>> THEN 0 ELSE Head(b) + Total(Tail(b))

EncodeBlock(b) ==
    <<Blk(Len(b))>> \o [i \in 1..Len(b) |-> Lit(b[i])] \o <<Sum(Total(b))>>

Invalid == [ok |-> FALSE, data |-> <<>>]

RECURSIVE DecodeBlocks(_)
DecodeBlocks(s) ==
    IF s = <<>> THEN Invalid
    ELSE IF Head(s).t = "end"
         THEN IF Len(s) = 1 THEN [ok |-> TRUE, data |-> <<>>] ELSE Invalid
    ELSE IF Head(s).t = "blk"
         THEN LET n == Head(s).v
                  b == [i \in 1..n |-> 1 - s[i + 1].v]
              IN IF \/ Len(s) < n + 2
                    \/ \E i \in 2..(n + 1) : s[i].t # "lit"
                    \/ s[n + 2] # Sum(Total(b))
                 THEN Invalid
                 ELSE LET rest == DecodeBlocks(SubSeq(s, n + 3, Len(s)))
                      IN IF rest.ok
                         THEN [ok |-> TRUE, data |-> b \o rest.data]
                         ELSE Invalid
    ELSE Invalid

\* The decompression counterpart: a frame decodes when its header names
\* the dictionary in use and its blocks are followed by the end mark.
Decode(s, d) ==
    IF s = <<>> \/ Head(s) # Hdr(d) THEN Invalid ELSE DecodeBlocks(Tail(s))

\* A fresh streaming context (ZBUFF_createCCtx), not yet initialised.
\* inBuff / outBuff are the engine's internal buffers; taken and emitted
\* record every byte it consumed and produced; ended counts stream-end
\* invocations, late the primitive invocations made after stream-end or
\* after the context was freed, freed the invocations of the free primitive.
CreateCCtx ==
    [inBuff |-> <<>>, outBuff |-> <<>>, dict |-> 0, taken |-> <<>>,
     emitted |-> <<>>, ended |-> 0, late |-> 0, freed |-> 0]

\* compression levels the engine accepts (doc comment: 1-21)
LevelOk(level) == level \in 1..21

\* ZBUFF_compressInit / ZBUFF_compressInitDictionary: the frame header is
\* staged in the engine's output buffer.
CompressInit(z, d) == [z EXCEPT !.dict = d, !.outBuff = <<Hdr(d)>>]

Touch(z) == [z EXCEPT !.late = @ + (IF z.ended > 0 \/ z.freed > 0 THEN 1 ELSE 0)]

JunkOf(n) == [i \in 1..n |-> Junk]

\* A failing primitive: the context is left as it was and the reported
\* output length is whatever the engine left in the in/out parameter.
EngineFailures(z, cap) ==
    { [code |-> "err", consumed |-> 0, mem |-> JunkOf(cap), out_size |-> n,
       remaining |-> 0, z |-> Touch(z)] : n \in {0, cap} }

\* ZBUFF_compressContinue on src with an output limit of cap: the engine
\* loads k bytes (as many as it chooses, within its input buffer), closes
\* a block when the buffer is full, and copies out as much pending output
\* as the limit allows.
ContinueResult(z, src, cap, k) ==
    LET loaded == z.inBuff \o SubSeq(src, 1, k)
        cut == Len(loaded) = InCap
        pend == IF cut THEN z.outBuff \o EncodeBlock(loaded) ELSE z.outBuff
        p == Min(cap, Len(pend))
        zt == Touch(z)
    IN [code |-> "ok", consumed |-> k,
        mem |-> SubSeq(pend, 1, p) \o JunkOf(cap - p), out_size |-> p,
        remaining |-> Len(pend) - p,
        z |-> [zt EXCEPT !.inBuff = IF cut THEN <<>> ELSE loaded,
                         !.outBuff = SubSeq(pend, p + 1, Len(pend)),
                         !.taken = @ \o SubSeq(src, 1, k),
                         !.emitted = @ \o SubSeq(pend, 1, p)]]

CompressContinue(z, src, cap) ==
    { ContinueResult(z, src, cap, k) :
        k \in 0..Min(Len(src), InCap - Len(z.inBuff)) }
    \cup EngineFailures(z, cap)

\* ZBUFF_compressFlush: closes the current block and copies out as much
\* pending output as the limit allows; reports what is still held.
FlushResult(z, cap) ==
    LET pend == IF z.inBuff # <<>> THEN z.outBuff \o EncodeBlock(z.inBuff)
                ELSE z.outBuff
        p == Min(cap, Len(pend))
        zt == Touch(z)
    IN [code |-> "ok", consumed |-> 0,
        mem |-> SubSeq(pend, 1, p) \o JunkOf(cap - p), out_size |-> p,
        remaining |-> Len(pend) - p,
        z |-> [zt EXCEPT !.inBuff = <<>>,
                         !.outBuff = SubSeq(pend, p + 1, Len(pend)),
                         !.emitted = @ \o SubSeq(pend, 1, p)]]

CompressFlush(z, cap) == {FlushResult(z, cap)} \cup EngineFailures(z, cap)

\* ZBUFF_compressEnd: as flush, then the end-of-frame mark; reports the
\* count of bytes that did not fit in the output limit.
EndResult(z, cap) ==
    LET blk == IF z.inBuff # <<>> THEN z.outBuff \o EncodeBlock(z.inBuff)
               ELSE z.outBuff
        pend == blk \o <<EndMark>>
        p == Min(cap, Len(pend))
        zt == Touch(z)
    IN [code |-> "ok", consumed |-> 0,
        mem |-> SubSeq(pend, 1, p) \o JunkOf(cap - p), out_size |-> p,
        remaining |-> Len(pend) - p,
        z |-> [zt EXCEPT !.inBuff = <<>>,
                         !.outBuff = SubSeq(pend, p + 1, Len(pend)),
                         !.emitted = @ \o SubSeq(pend, 1, p),
                         !.ended = @ + 1]]

EndFailures(z, cap) ==
    { [o EXCEPT !.z.ended = @ + 1] : o \in EngineFailures(z, cap) }

CompressEnd(z, cap) == {EndResult(z, cap)} \cup EndFailures(z, cap)

\* ZBUFF_freeCCtx / ZSTD_freeCCtx
FreeCCtx(z) == [z EXCEPT !.freed = @ + 1]

\* the status code of stream-init: an unsupported level is an error
CompressInitCode(level) == IF LevelOk(level) THEN "ok" ELSE "err"

RECURSIVE EncodeAll(_)
EncodeAll(src) ==
    IF src = <<>> THEN <<>>
    ELSE LET n == Min(InCap, Len(src))
         IN EncodeBlock(SubSeq(src, 1, n)) \o EncodeAll(SubSeq(src, n + 1, Len(src)))

\* a complete frame for src under dictionary d
Frame(src, d) == <<Hdr(d)>> \o EncodeAll(src) \o <<EndMark>>

\* ZSTD_compressBound: an upper bound on the size of a frame for n input
\* bytes (frame header, end mark, and block overhead for one block more
\* than n bytes can fill)
CompressBound(n) == n + 2 * (n \div InCap + 1) + 2

\* ZSTD_compress_usingDict on context c into a destination of dstCap
\* bytes: an unsupported level or a destination too small is an error.
CompressUsingDict(c, dstCap, src, d, level) ==
    LET frame == Frame(src, d)
        good == LevelOk(level) /\ Len(frame) <= dstCap
    IN [code |-> IF good THEN "ok" ELSE "err",
        len |-> IF good THEN Len(frame) ELSE 0,
        mem |-> IF good THEN frame \o JunkOf(dstCap - Len(frame))
                ELSE JunkOf(dstCap),
        c |-> Touch(c)]

\* -------------------------------------------------------------------- Sink
\* write_all: every byte is accepted, or the call fails after the sink
\* accepted a proper prefix. An empty slice makes no write and succeeds.
WriteAll(sk, data) ==
    {[ok |-> TRUE, sink |-> sk \o data]}
    \cup { [ok |-> FALSE, sink |-> sk \o SubSeq(data, 1, n)] :
             n \in 0..(Len(data) - 1) }

\* ----------------------------------------------------------------- Encoder
VARIABLES
    pc,           \* the caller is at "start", "idle" between calls, or in "write"'s loop
    enc,          \* the Encoder value: "none", "live", "consumed", "dropped"
    context,      \* its EncoderContext: "none", "live", "freed"
    zbuff,        \* the native context behind context.c
    buffer,       \* Encoder.buffer up to its logical length
    sink,         \* the bytes the writer has accepted
    writerAt,     \* who owns the writer: "encoder", "caller", "handler", "dropped"
    wrapper,      \* "none", or the AutoFinishEncoder's kind: "auto", "custom"
    encoder,      \* AutoFinishEncoder.encoder: "None" or "Some"
    on_finish,    \* AutoFinishEncoder.on_finish: "None" or "Some"
    wbuf,         \* write's argument buf
    read,         \* write's local read
    ret,          \* the last operation that returned, and how
    input,        \* every byte passed to write so far
    consumedSum,  \* sum of the consumed counts the engine reported in this write
    fin,          \* what finish did: runs, outcome, stream-end's code and remaining
    handler,      \* the completion handler: invocations and the result it was given
    allOk,        \* no operation has returned an error or panicked
    faults,       \* failures injected so far
    capacity,     \* Encoder.buffer.capacity(); 0 while no buffer is allocated
    lastCall,     \* the last engine primitive invoked, its code and reported length
    comp,         \* the block Compressor: "none", "live", "dropped"
    bctx,         \* the native context behind Compressor.context.c
    cdict,        \* Compressor.dict, by its id
    bres          \* the last block compression call and its result

vars == <<pc, enc, context, zbuff, buffer, sink, writerAt, wrapper, encoder,
          on_finish, wbuf, read, ret, input, consumedSum, fin, handler, allOk,
          faults, capacity, lastCall, comp, bctx, cdict, bres>>

encVars == <<enc, context, writerAt>>
wrapVars == <<wrapper, encoder, on_finish>>
loopVars == <<wbuf, read, input, consumedSum>>
endVars == <<fin, handler>>
blockVars == <<comp, bctx, cdict, bres>>
streamVars == <<pc, enc, context, zbuff, buffer, sink, writerAt, wrapper,
                encoder, on_finish, wbuf, read, ret, input, consumedSum, fin,
                handler, allOk, faults, capacity, lastCall>>

Call(prim, code, out_size) == [prim |-> prim, code |-> code, out_size |-> out_size]

\* failures the engine and the sink injected in one step
Injected(code, ok) == (IF code = "err" THEN 1 ELSE 0) + (IF ok THEN 0 ELSE 1)

\* the result of stream-init dropped instead of returned
InitNeverFailed(code) == FALSE

\* try!(ll::parse_code(..)) on stream-init's status code
InitFailed(code) == code = "err"

\* the status code dropped instead of returned
NeverFailed(code) == FALSE

\* try!(ll::parse_code(code)) in write and flush
Failed(code) == code = "err"

\* the result of write_all dropped instead of returned
SinkNeverFailed(ok) == FALSE

\* try!(self.writer.write_all(&self.buffer))
SinkFailed(ok) == ~ok

BSeq(n) == UNION {[1..m -> Byte] : m \in 0..n}

Ret(op, kind, val) == [op |-> op, kind |-> kind, val |-> val]

\* buffer.capacity(): Vec::with_capacity(ZBUFF_recommendedCOutSize())
Capacity == BufCap

\* the length set to the whole capacity
SetLenWhole(mem, out_size) == mem

\* set_len one short of the reported length
SetLenShort(mem, out_size) == SubSeq(mem, 1, out_size - 1)

\* self.buffer.set_len(out_size) over the memory the engine wrote
SetLen(mem, out_size) == SubSeq(mem, 1, out_size)

\* a loop that makes at least one engine call
WriteDoneNonEmpty(rd, len) == rd = len /\ len > 0

\* the loop left after the first call that consumed something
WriteDoneAfterOne(rd, len) == rd > 0 \/ len = 0

\* while read != buf.len()
WriteDone(rd, len) == rd = len

\* let mut in_size = buf.len() - read
InSize(buf, rd) == Len(buf) - rd

\* the whole of buf handed over again
SuffixWhole(buf, rd) == buf

\* buf[read..]
Suffix(buf, rd) == SubSeq(buf, rd + 1, Len(buf))

\* the advance forgotten
AdvanceNot(rd, in_size) == rd

\* read += in_size
Advance(rd, in_size) == rd + in_size

\* the remaining count ignored
NeverNeedFlush(remaining) == FALSE

\* if remaining != 0 { panic!(..) }
NeedFlush(remaining) == remaining # 0

\* finish borrowing the encoder instead of taking it
EncoderStillLive == "live"

\* pub fn finish(mut self): the encoder is moved into finish
EncoderAfterFinish == "consumed"

\* no Drop for the context
EncoderContextLeak(z) == z

\* Drop for EncoderContext: ZBUFF_freeCCtx(self.c)
EncoderContextDrop(z) == FreeCCtx(z)

\* the wrapper built without its handler
AutoFinishEncoderNewNoHandler == [encoder |-> "Some", on_finish |-> "None"]

\* AutoFinishEncoder::new: both fields start as Some
AutoFinishEncoderNew == [encoder |-> "Some", on_finish |-> "Some"]

\* the value read in place and left there
TakeOptionKeep(opt) == [value |-> opt, left |-> opt]

\* Option::take: hands out the value and leaves None
TakeOption(opt) == [value |-> opt, left |-> "None"]

\* the FnMut handler called a second time
InvocationsTwice(taken) == IF taken = "Some" THEN 2 ELSE 0

\* if let Some(mut on_finish) = self.on_finish.take() { on_finish(result); }
Invocations(taken) == IF taken = "Some" THEN 1 ELSE 0

\* auto_finish's closure: |result| { result.unwrap(); }
AutoFinishHandler(result) == IF result = "ok" THEN "returned" ELSE "panic"

Init ==
    /\ pc = "start"
    /\ enc = "none"
    /\ context = "none"
    /\ zbuff = CreateCCtx
    /\ buffer = <<>>
    /\ sink = <<>>
    /\ writerAt = "caller"
    /\ wrapper = "none"
    /\ encoder = "None"
    /\ on_finish = "None"
    /\ wbuf = <<>>
    /\ read = 0
    /\ ret = Ret("none", "none", 0)
    /\ input = <<>>
    /\ consumedSum = 0
    /\ fin = [runs |-> 0, kind |-> "none", endCode |-> "none", remaining |-> 0]
    /\ handler = [calls |-> 0, arg |-> "none"]
    /\ allOk = TRUE
    /\ faults = 0
    /\ capacity = 0
    /\ lastCall = Call("none", "none", 0)
    /\ comp = "none"
    /\ bctx = CreateCCtx
    /\ cdict = 0
    /\ bres = [op |-> "none", kind |-> "none", src |-> <<>>, level |-> 0,
               alloc |-> 0, code |-> "none", reported |-> 0, data |-> <<>>]

\* Encoder::new / Encoder::with_dictionary, then with_context
Construct(level, d) ==
    /\ pc = "start"
    /\ lastCall' = Call("init", CompressInitCode(level), 0)
    /\ IF ~InitFailed(CompressInitCode(level))
       THEN /\ zbuff' = CompressInit(CreateCCtx, d)
            /\ context' = "live"
            /\ enc' = "live"
            /\ writerAt' = "encoder"
            /\ capacity' = Capacity
            /\ pc' = "idle"
            /\ ret' = Ret("new", "ok", 0)
            /\ allOk' = allOk
       ELSE /\ zbuff' = EncoderContextDrop(CreateCCtx)
            /\ context' = "freed"
            /\ enc' = "none"
            /\ writerAt' = "dropped"
            /\ capacity' = 0
            /\ pc' = "idle"
            /\ ret' = Ret("new", "err", 0)
            /\ allOk' = FALSE
    /\ buffer' = <<>>
    /\ UNCHANGED <<sink, wrapVars, loopVars, endVars, faults, blockVars>>

Levels == {3, 22}

EncoderNew == \E level \in Levels : Construct(level, 0)

EncoderWithDictionary == \E level \in Levels : Construct(level, 1)

\* Encoder::on_finish -> AutoFinishEncoder::new
Wrap(kind) ==
    /\ pc = "idle"
    /\ enc = "live"
    /\ wrapper = "none"
    /\ wrapper' = kind
    /\ encoder' = AutoFinishEncoderNew.encoder
    /\ on_finish' = AutoFinishEncoderNew.on_finish
    /\ UNCHANGED <<pc, encVars, zbuff, buffer, sink, loopVars, ret, endVars,
                   allOk, faults, capacity, lastCall, blockVars>>

EncoderAutoFinish == Wrap("auto")

EncoderOnFinish == Wrap("custom")

\* the encoder an operation reaches: directly, or through
\* self.encoder.as_mut().unwrap() of the wrapper
Reachable ==
    /\ enc = "live"
    /\ wrapper # "none" => encoder = "Some"

\* Encoder::write, entry: let mut read = 0
WriteCall ==
    /\ pc = "idle"
    /\ Reachable
    /\ \E buf \in BSeq(MaxInput) :
         /\ Len(input) + Len(buf) <= MaxInput
         /\ wbuf' = buf
         /\ input' = input \o buf
    /\ read' = 0
    /\ consumedSum' = 0
    /\ pc' = "write"
    /\ UNCHANGED <<encVars, zbuff, buffer, sink, wrapVars, ret, endVars, allOk,
                   faults, capacity, lastCall, blockVars>>

\* Encoder::write, one iteration of the loop
WriteIter ==
    /\ pc = "write"
    /\ ~WriteDone(read, Len(wbuf))
    /\ \E o \in CompressContinue(zbuff,
                    SubSeq(Suffix(wbuf, read), 1, InSize(wbuf, read)), capacity) :
         /\ zbuff' = o.z
         /\ buffer' = SetLen(o.mem, o.out_size)
         /\ lastCall' = Call("continue", o.code, o.out_size)
         /\ IF Failed(o.code)
            THEN /\ faults + Injected(o.code, TRUE) <= MaxFaults
                 /\ faults' = faults + Injected(o.code, TRUE)
                 /\ ret' = Ret("write", "err", 0)
                 /\ allOk' = FALSE
                 /\ pc' = "idle"
                 /\ UNCHANGED <<sink, read, consumedSum>>
            ELSE \E w \in WriteAll(sink, SetLen(o.mem, o.out_size)) :
                   /\ faults + Injected(o.code, w.ok) <= MaxFaults
                   /\ faults' = faults + Injected(o.code, w.ok)
                   /\ sink' = w.sink
                   /\ IF SinkFailed(w.ok)
                      THEN /\ ret' = Ret("write", "err", 0)
                           /\ allOk' = FALSE
                           /\ pc' = "idle"
                           /\ UNCHANGED <<read, consumedSum>>
                      ELSE /\ read' = Advance(read, o.consumed)
                           /\ consumedSum' = consumedSum + o.consumed
                           /\ UNCHANGED <<pc, ret, allOk>>
    /\ UNCHANGED <<encVars, wrapVars, wbuf, input, endVars, capacity, blockVars>>

\* Encoder::write, loop exit: Ok(read)
WriteReturn ==
    /\ pc = "write"
    /\ WriteDone(read, Len(wbuf))
    /\ ret' = Ret("write", "ok", read)
    /\ pc' = "idle"
    /\ UNCHANGED <<encVars, zbuff, buffer, sink, wrapVars, loopVars, endVars,
                   allOk, faults, capacity, lastCall, blockVars>>

\* flush closing the stream
FlushCallsEnd(z, cap) == CompressEnd(z, cap)

\* the engine call of flush
FlushEngineCall(z, cap) == CompressFlush(z, cap)

\* Encoder::flush
Flush ==
    /\ pc = "idle"
    /\ Reachable
    /\ \E o \in FlushEngineCall(zbuff, capacity) :
         /\ zbuff' = o.z
         /\ buffer' = SetLen(o.mem, o.out_size)
         /\ lastCall' = Call("flush", o.code, o.out_size)
         /\ IF Failed(o.code)
            THEN /\ faults + Injected(o.code, TRUE) <= MaxFaults
                 /\ faults' = faults + Injected(o.code, TRUE)
                 /\ ret' = Ret("flush", "err", 0)
                 /\ allOk' = FALSE
                 /\ UNCHANGED sink
            ELSE \E w \in WriteAll(sink, SetLen(o.mem, o.out_size)) :
                   /\ faults + Injected(o.code, w.ok) <= MaxFaults
                   /\ faults' = faults + Injected(o.code, w.ok)
                   /\ sink' = w.sink
                   /\ IF SinkFailed(w.ok)
                      THEN /\ ret' = Ret("flush", "err", 0)
                           /\ allOk' = FALSE
                      ELSE /\ ret' = Ret("flush", "ok", 0)
                           /\ UNCHANGED allOk
    /\ UNCHANGED <<pc, encVars, wrapVars, loopVars, endVars, capacity, blockVars>>

\* the context released before the stream is ended
FinishEndAfterFree(z, cap) == CompressEnd(FreeCCtx(z), cap)

\* the engine call of finish
FinishEngineCall(z, cap) == CompressEnd(z, cap)

\* try!(ll::parse_code(..)) on stream-end's status code, before set_len
FinishFailed(code) == code = "err"

\* The body of Encoder::finish on context z, sink sk and buffer buf: every
\* way it can end. The encoder is dropped when finish is left, so the
\* context is released on each path.
FinishOutcomes(z, sk, buf) ==
    UNION {
      IF FinishFailed(o.code)
      THEN {[kind |-> "err", z |-> EncoderContextDrop(o.z), sink |-> sk,
             buffer |-> buf, fault |-> Injected(o.code, TRUE),
             endCode |-> o.code, remaining |-> 0, out_size |-> o.out_size]}
      ELSE IF NeedFlush(o.remaining)
      THEN {[kind |-> "panic", z |-> EncoderContextDrop(o.z), sink |-> sk,
             buffer |-> SetLen(o.mem, o.out_size),
             fault |-> Injected(o.code, TRUE),
             endCode |-> o.code, remaining |-> o.remaining,
             out_size |-> o.out_size]}
      ELSE {[kind |-> IF SinkFailed(w.ok) THEN "err" ELSE "ok",
             z |-> EncoderContextDrop(o.z), sink |-> w.sink,
             buffer |-> SetLen(o.mem, o.out_size),
             fault |-> Injected(o.code, w.ok),
             endCode |-> o.code, remaining |-> o.remaining,
             out_size |-> o.out_size] :
               w \in WriteAll(sk, SetLen(o.mem, o.out_size))}
      : o \in FinishEngineCall(z, capacity) }

\* Encoder::finish called on the encoder itself
Finish ==
    /\ pc = "idle"
    /\ enc = "live"
    /\ wrapper = "none"
    /\ \E f \in FinishOutcomes(zbuff, sink, buffer) :
         /\ faults + f.fault <= MaxFaults
         /\ faults' = faults + f.fault
         /\ zbuff' = f.z
         /\ sink' = f.sink
         /\ buffer' = f.buffer
         /\ fin' = [runs |-> fin.runs + 1, kind |-> f.kind,
                    endCode |-> f.endCode, remaining |-> f.remaining]
         /\ lastCall' = Call("end", f.endCode, f.out_size)
         /\ ret' = Ret("finish", f.kind, 0)
         /\ writerAt' = IF f.kind = "ok" THEN "caller" ELSE "dropped"
         /\ allOk' = (allOk /\ f.kind = "ok")
    /\ enc' = EncoderAfterFinish
    /\ context' = "freed"
    /\ pc' = "idle"
    /\ UNCHANGED <<wrapVars, loopVars, handler, capacity, blockVars>>

\* Drop for AutoFinishEncoder
AutoFinishDrop ==
    /\ pc = "idle"
    /\ wrapper # "none"
    /\ encoder = "Some"
    /\ enc = "live"
    /\ \E f \in FinishOutcomes(zbuff, sink, buffer) :
         LET cb == IF f.kind = "panic" THEN "None" ELSE TakeOption(on_finish).value
             n == Invocations(cb)
             out == IF f.kind = "panic" THEN "panic"
                    ELSE IF n > 0 /\ wrapper = "auto"
                         THEN (IF AutoFinishHandler(f.kind) = "panic"
                               THEN "panic" ELSE "ok")
                         ELSE "ok"
         IN /\ faults + f.fault <= MaxFaults
            /\ faults' = faults + f.fault
            /\ zbuff' = f.z
            /\ sink' = f.sink
            /\ buffer' = f.buffer
            /\ fin' = [runs |-> fin.runs + 1, kind |-> f.kind,
                       endCode |-> f.endCode, remaining |-> f.remaining]
            /\ handler' = IF n > 0
                          THEN [calls |-> handler.calls + n, arg |-> f.kind]
                          ELSE handler
            /\ on_finish' = IF f.kind = "panic" THEN on_finish
                            ELSE TakeOption(on_finish).left
            /\ lastCall' = Call("end", f.endCode, f.out_size)
            /\ ret' = Ret("drop", out, 0)
            /\ writerAt' = IF f.kind = "ok" /\ n > 0 THEN "handler" ELSE "dropped"
            /\ allOk' = (allOk /\ f.kind = "ok")
    /\ encoder' = TakeOption(encoder).left
    /\ enc' = EncoderAfterFinish
    /\ context' = "freed"
    /\ pc' = "idle"
    /\ UNCHANGED <<wrapper, loopVars, capacity, blockVars>>

\* an Encoder dropped without finish: only its context is released
EncoderDrop ==
    /\ pc = "idle"
    /\ enc = "live"
    /\ wrapper = "none"
    /\ zbuff' = EncoderContextDrop(zbuff)
    /\ context' = "freed"
    /\ enc' = "dropped"
    /\ writerAt' = "dropped"
    /\ ret' = Ret("drop", "ok", 0)
    /\ pc' = "idle"
    /\ UNCHANGED <<buffer, sink, wrapVars, loopVars, endVars, allOk, faults,
                   capacity, lastCall, blockVars>>

\* ------------------------------------------------------- Block compressor
\* src/src/block/compressor.rs: Compressor, compress_to_buffer, compress

BRes(op, kind, src, level, alloc, code, reported, data) ==
    [op |-> op, kind |-> kind, src |-> src, level |-> level, alloc |-> alloc,
     code |-> code, reported |-> reported, data |-> data]

\* Compressor::with_dict (Compressor::new passes an empty dictionary)
WithDict(d) ==
    /\ pc = "start"
    /\ comp' = "live"
    /\ bctx' = CreateCCtx
    /\ cdict' = d
    /\ pc' = "idle"
    /\ UNCHANGED <<enc, context, zbuff, buffer, sink, writerAt, wrapVars,
                   loopVars, ret, endVars, allOk, faults, capacity, lastCall,
                   bres>>

CompressorNew == WithDict(0)

CompressorWithDict == WithDict(1)

\* Compressor::compress_to_buffer on a destination of n bytes
CompressToBuffer ==
    /\ comp = "live"
    /\ \E n \in 0..CompressBound(MaxInput), source \in BSeq(MaxInput),
          level \in Levels :
         LET r == CompressUsingDict(bctx, n, source, cdict, level)
         IN /\ bctx' = r.c
            /\ bres' = BRes("compress_to_buffer", r.code, source, level, n,
                            r.code, r.len,
                            IF r.code = "ok" THEN SubSeq(r.mem, 1, r.len)
                            ELSE <<>>)
    /\ UNCHANGED <<streamVars, comp, cdict>>

\* a buffer as long as the input
BufferLenOfInput(n) == n

\* let buffer_len = ZSTD_compressBound(data.len())
BufferLen(n) == CompressBound(n)

\* the buffer left at its full length
TruncateNot(mem, len) == mem

\* buffer.set_len(len)
Truncate(mem, len) == SubSeq(mem, 1, len)

\* try!(self.compress_to_buffer(..)) in compress
CompressFailed(code) == code = "err"

\* Compressor::compress
Compress ==
    /\ comp = "live"
    /\ \E data \in BSeq(MaxInput), lvl \in Levels :
         LET buffer_len == BufferLen(Len(data))
             r == CompressUsingDict(bctx, buffer_len, data, cdict, lvl)
         IN /\ bctx' = r.c
            /\ bres' = IF CompressFailed(r.code)
                       THEN BRes("compress", "err", data, lvl, buffer_len,
                                 r.code, r.len, <<>>)
                       ELSE BRes("compress", "ok", data, lvl, buffer_len,
                                 r.code, r.len, Truncate(r.mem, r.len))
    /\ UNCHANGED <<streamVars, comp, cdict>>

\* no Drop for the block context
BlockContextLeak(c) == c

\* Drop for EncoderContext (block): ZSTD_freeCCtx(self.c)
BlockContextDrop(c) == FreeCCtx(c)

\* a Compressor going out of scope
CompressorDrop ==
    /\ comp = "live"
    /\ comp' = "dropped"
    /\ bctx' = BlockContextDrop(bctx)
    /\ UNCHANGED <<streamVars, cdict, bres>>

Next ==
    \/ EncoderNew
    \/ EncoderWithDictionary
    \/ EncoderAutoFinish
    \/ EncoderOnFinish
    \/ WriteCall
    \/ WriteIter
    \/ WriteReturn
    \/ Flush
    \/ Finish
    \/ AutoFinishDrop
    \/ EncoderDrop
    \/ CompressorNew
    \/ CompressorWithDict
    \/ CompressToBuffer
    \/ Compress
    \/ CompressorDrop

Spec == Init /\ [][Next]_vars

\* an iteration of write's loop in which the engine consumed something
WriteProgress == WriteIter /\ read' > read

\* write's loop keeps running until it returns, and the engine does not
\* refuse input forever once its output has been drained
FairSpec == Spec /\ WF_vars(WriteReturn) /\ WF_vars(WriteProgress)

\* ------------------------------------------------------------- Properties
WriteReturnedOk == pc = "idle" /\ ret.op = "write" /\ ret.kind = "ok"

\* C1: write returns success only when the consumed counts reported by the
\* engine add up to the length of its input, and then returns that length;
\* while every operation has succeeded the engine has taken exactly the
\* bytes passed to write.
C1_WriteConsumesAll ==
    WriteReturnedOk =>
        /\ ret.val = Len(wbuf)
        /\ consumedSum = Len(wbuf)
        /\ allOk => zbuff.taken = input

C1_Witness == WriteReturnedOk /\ Len(wbuf) = 2 /\ zbuff.taken = input

\* C2: as long as every operation has succeeded, the sink holds exactly the
\* in-order concatenation of the chunks the engine placed in the internal
\* output buffer: nothing is dropped, duplicated or reordered, and nothing
\* is held back in the buffer across engine calls.
C2_SinkIsEmitted == allOk => sink = zbuff.emitted

C2_Witness ==
    /\ allOk
    /\ ret.op = "finish"
    /\ Len(sink) > Capacity
    /\ sink = zbuff.emitted

FinishedOk == fin.runs > 0 /\ fin.kind = "ok" /\ allOk

\* C3: after a successful finish that followed only successful writes and
\* flushes, the sink decompresses to exactly the concatenation of the
\* inputs of the write calls, whatever the chunking.
C3_RoundTrip ==
    FinishedOk => Decode(sink, zbuff.dict) = [ok |-> TRUE, data |-> input]

C3_Witness ==
    /\ FinishedOk
    /\ Len(input) = 2
    /\ Len(wbuf) = 1
    /\ Decode(sink, zbuff.dict).data = input

WrapperDropped == wrapper # "none" /\ ret.op = "drop"

\* C4: a wrapper that goes out of scope after writes, with an engine and a
\* sink that did not fail and a stream end that left nothing remaining,
\* has had its handler invoked exactly once, with a successful result.
C4_AutoFinishOnce ==
    (WrapperDropped /\ faults = 0 /\ fin.endCode = "ok" /\ fin.remaining = 0) =>
        /\ fin.runs = 1
        /\ handler = [calls |-> 1, arg |-> "ok"]
        /\ ret.kind = "ok"

C4_Witness ==
    /\ WrapperDropped
    /\ Len(input) > 0
    /\ handler = [calls |-> 1, arg |-> "ok"]
    /\ writerAt = "handler"

\* C5: the wrapped encoder is finished at most once and the handler is
\* invoked at most once, and each is gone from the wrapper once consumed.
C5_AtMostOnce ==
    /\ fin.runs <= 1
    /\ handler.calls <= 1
    /\ (wrapper # "none" /\ fin.runs = 1) => encoder = "None"
    /\ handler.calls = 1 => on_finish = "None"

C5_Witness ==
    /\ WrapperDropped
    /\ fin.runs = 1
    /\ handler.calls = 1
    /\ encoder = "None"
    /\ on_finish = "None"

\* C6 as stated: whenever a wrapper's scope has ended, finish has run and
\* its result has been passed to the handler, also when stream-end
\* reported a non-zero remaining count.
C6_AlwaysDelivered ==
    WrapperDropped =>
        /\ fin.runs = 1
        /\ handler = [calls |-> 1, arg |-> fin.kind]

\* C6 amended: whenever a wrapper's scope has ended, finish has run once;
\* its result, success or failure, has been passed to the handler once,
\* unless stream-end reported a non-zero remaining count: then finish
\* panicked and the handler was not invoked.
C6_DeliveredUnlessAbort ==
    WrapperDropped =>
        /\ fin.runs = 1
        /\ IF fin.endCode = "ok" /\ fin.remaining # 0
           THEN handler.calls = 0 /\ ret.kind = "panic"
           ELSE handler = [calls |-> 1, arg |-> fin.kind]

C6_Witness ==
    /\ WrapperDropped
    /\ wrapper = "custom"
    /\ fin.kind = "err"
    /\ handler = [calls |-> 1, arg |-> "err"]

\* C7: stream-end is invoked at most once, no engine primitive is invoked
\* after it, and once it has been invoked no operation of the encoder or
\* of its wrapper can be applied.
C7_FinishedIsTerminal ==
    /\ zbuff.ended <= 1
    /\ zbuff.late = 0
    /\ zbuff.ended > 0 =>
         /\ enc # "live"
         /\ ~ENABLED (WriteCall \/ WriteIter \/ Flush \/ Finish \/ AutoFinishDrop)

C7_Witness == zbuff.ended = 1 /\ enc = "consumed" /\ Len(input) > 0

\* C8: when stream-end succeeds with a non-zero remaining count, finish
\* panics: it returns neither the sink nor an error, its output is not
\* forwarded, and the encoder is gone.
C8_RemainingIsFatal ==
    (fin.runs > 0 /\ fin.endCode = "ok" /\ fin.remaining # 0) =>
        /\ fin.kind = "panic"
        /\ ret.kind = "panic"
        /\ writerAt = "dropped"
        /\ enc = "consumed"

C8_Witness == fin.kind = "panic" /\ fin.remaining > 0 /\ wrapper = "none"

FlushReturned == pc = "idle" /\ ret.op = "flush"

\* C9 as stated: after a successful flush (on an encoder none of whose
\* operations failed) the engine holds no pending output and no unflushed
\* input.
C9_FlushDrainsEngine ==
    (FlushReturned /\ ret.kind = "ok" /\ enc = "live" /\ faults = 0) =>
        zbuff.outBuff = <<>> /\ zbuff.inBuff = <<>>

\* C10: flush never invokes stream-end, and after flush has returned the
\* encoder is still there and write, flush and finish (or the wrapper's
\* drop) can be applied.
C10_FlushKeepsStreamOpen ==
    (FlushReturned /\ enc = "live") =>
        /\ zbuff.ended = 0
        /\ context = "live"
        /\ ENABLED WriteCall
        /\ ENABLED Flush
        /\ ENABLED (Finish \/ AutoFinishDrop)

C10_Witness ==
    /\ FlushReturned
    /\ ret.kind = "ok"
    /\ enc = "live"
    /\ input = <<>>
    /\ zbuff.emitted = sink
    /\ Len(sink) = 1

\* C11: every native context that was acquired is released through the
\* free primitive exactly once when its owner is gone, on every exit path
\* (failed stream-init, finish returning Ok or Err, finish panicking, an
\* encoder dropped without finish, a block Compressor dropped), and never
\* while its owner is alive; none is freed twice.
C11_ContextReleasedOnce ==
    /\ zbuff.freed <= 1
    /\ bctx.freed <= 1
    /\ context \in {"none", "live"} => zbuff.freed = 0
    /\ (context # "none" /\ enc # "live") => zbuff.freed = 1
    /\ comp \in {"none", "live"} => bctx.freed = 0
    /\ comp = "dropped" => bctx.freed = 1

C11_Witness ==
    /\ fin.kind = "panic"
    /\ enc = "consumed"
    /\ zbuff.freed = 1

\* C12: when stream-init fails, the constructor returns the failure, no
\* encoder exists, no output buffer was allocated, nothing was written to
\* the sink, and no operation of the encoder can be applied.
C12_InitFailureLeavesNothing ==
    (lastCall.prim = "init" /\ lastCall.code = "err") =>
        /\ ret = Ret("new", "err", 0)
        /\ enc = "none"
        /\ capacity = 0
        /\ buffer = <<>>
        /\ sink = <<>>
        /\ zbuff.emitted = <<>>
        /\ ~ENABLED (WriteCall \/ Flush \/ Finish \/ EncoderAutoFinish
                     \/ EncoderOnFinish \/ EncoderDrop)

C12_Witness ==
    /\ lastCall = Call("init", "err", 0)
    /\ ret.kind = "err"
    /\ context = "freed"

NoJunk(data) == \A i \in 1..Len(data) : data[i] # Junk

\* C13: compress allocates exactly compress_bound(len(source)) bytes; on
\* success the returned buffer's length is the byte count the engine
\* reported (at most the bound) and holds only what the engine wrote; on
\* engine failure it returns the error and no buffer.
C13_CompressLength ==
    bres.op = "compress" =>
        /\ bres.alloc = CompressBound(Len(bres.src))
        /\ IF bres.code = "ok"
           THEN /\ bres.kind = "ok"
                /\ Len(bres.data) = bres.reported
                /\ bres.reported <= bres.alloc
                /\ NoJunk(bres.data)
           ELSE /\ bres.kind = "err"
                /\ bres.data = <<>>

C13_Witness ==
    /\ bres.op = "compress"
    /\ bres.kind = "ok"
    /\ bres.src # <<>>
    /\ Len(bres.data) < bres.alloc

\* C14: compress_to_buffer with a destination of exactly
\* compress_bound(len(s)) bytes and a supported level succeeds, and so
\* does compress with a supported level, on every call of a reused
\* Compressor; what compress returns decompresses to its input.
C14_BoundSuffices ==
    /\ (/\ bres.op = "compress_to_buffer"
        /\ bres.alloc = CompressBound(Len(bres.src))
        /\ LevelOk(bres.level)) => bres.kind = "ok"
    /\ (bres.op = "compress" /\ LevelOk(bres.level)) =>
           /\ bres.kind = "ok"
           /\ Decode(bres.data, cdict) = [ok |-> TRUE, data |-> bres.src]

C14_Witness ==
    /\ bres.op = "compress_to_buffer"
    /\ bres.kind = "ok"
    /\ Len(bres.src) = 1
    /\ bres.alloc = CompressBound(1)
    /\ bres.reported = bres.alloc

\* a step in which an engine call of write or flush reported a failure
EngineFailStep ==
    /\ faults' > faults
    /\ lastCall'.code = "err"
    /\ lastCall'.prim \in {"continue", "flush"}

\* C15: a step in which the engine call of write or flush fails ends the
\* operation with that failure: the loop is left, the sink is as it was
\* (the buffer of the failing call is not forwarded) and the engine has
\* emitted nothing more.
C15_EngineFailureReturns ==
    [][EngineFailStep =>
         /\ pc' = "idle"
         /\ ret' = Ret(IF lastCall'.prim = "continue" THEN "write" ELSE "flush",
                       "err", 0)
         /\ sink' = sink
         /\ zbuff'.emitted = zbuff.emitted
         /\ read' = read]_vars

C15_Witness ==
    /\ pc = "idle"
    /\ ret = Ret("write", "err", 0)
    /\ lastCall = Call("continue", "err", capacity)
    /\ Len(buffer) = capacity
    /\ sink # <<>>
    /\ sink = zbuff.emitted

\* a step in which the sink rejected a write_all
SinkFailStep == faults' > faults /\ lastCall'.code = "ok"

\* C16: a step in which the sink rejects write_all ends the operation with
\* the failure: the loop is left, what the sink held before is still
\* there, followed by a proper prefix of the rejected buffer, and a
\* failing finish does not hand the sink back to the caller.
C16_SinkFailureReturns ==
    [][SinkFailStep =>
         /\ pc' = "idle"
         /\ \E n \in 0..(Len(buffer') - 1) :
              sink' = sink \o SubSeq(buffer', 1, n)
         /\ zbuff'.emitted = zbuff.emitted \o buffer'
         /\ read' = read
         /\ IF lastCall'.prim = "end"
            THEN fin'.kind = "err" /\ writerAt' = "dropped"
            ELSE ret'.kind = "err" /\ enc' = "live"]_vars

C16_Witness ==
    /\ ret = Ret("finish", "err", 0)
    /\ lastCall.code = "ok"
    /\ writerAt = "dropped"
    /\ sink # <<>>
    /\ Len(sink) < Len(zbuff.emitted)

\* what C17 says of the buffer apart from its length after a call: the
\* capacity is the recommended size as long as an encoder exists, the
\* length never exceeds it, and no byte past the length reaches the sink
BufferShape ==
    /\ enc # "none" => capacity = Capacity
    /\ Len(buffer) <= capacity
    /\ NoJunk(sink)

\* C17 as stated: after every engine call, a failing one included, the
\* length is the produced count the call reported.
C17_LengthAfterEveryCall ==
    /\ BufferShape
    /\ lastCall.prim \in {"continue", "flush", "end"} =>
           Len(buffer) = lastCall.out_size

\* C17 amended: the length is the reported count after every continue and
\* flush call, a failing one included, and after a stream-end call that
\* succeeded; a failing stream-end leaves the length alone.
C17_LengthAfterCall ==
    /\ BufferShape
    /\ (\/ lastCall.prim \in {"continue", "flush"}
        \/ lastCall.prim = "end" /\ lastCall.code = "ok") =>
           Len(buffer) = lastCall.out_size

C17_Witness ==
    /\ lastCall = Call("flush", "err", capacity)
    /\ Len(buffer) = capacity
    /\ capacity = Capacity
    /\ sink # <<>>

\* C18: no engine primitive is invoked on a context after it was released,
\* and once an encoder's context is released its buffer, its sink and the
\* context itself are not touched again.
C18_NoUseAfterRelease ==
    [][/\ zbuff'.late = 0
       /\ bctx'.late = 0
       /\ zbuff.freed > 0 => (zbuff' = zbuff /\ buffer' = buffer /\ sink' = sink)
       /\ bctx.freed > 0 => bctx' = bctx]_vars

C18_Witness ==
    /\ wrapper = "auto"
    /\ fin.kind = "ok"
    /\ zbuff.freed = 1
    /\ zbuff.ended = 1
    /\ zbuff.late = 0
    /\ input # <<>>

\* C19: finish on an encoder that received no input byte, with or without
\* flushes before, invokes stream-end once and forwards its output, and
\* the sink decompresses to the empty sequence; write with an empty input
\* makes no engine call and returns 0.
C19_EmptyInput ==
    /\ (fin.runs = 1 /\ input = <<>> /\ faults = 0) =>
           /\ fin.kind = "ok"
           /\ zbuff.ended = 1
           /\ sink = zbuff.emitted
           /\ Decode(sink, zbuff.dict) = [ok |-> TRUE, data |-> <<>>]
    /\ (pc = "write" /\ wbuf = <<>>) => (read = 0 /\ ~ENABLED WriteIter)
    /\ (WriteReturnedOk /\ wbuf = <<>>) => ret.val = 0

C19_Witness ==
    /\ fin.kind = "ok"
    /\ input = <<>>
    /\ lastCall = Call("end", "ok", 1)
    /\ Decode(sink, zbuff.dict).ok

\* C20: write terminates: inside the loop read never decreases and never
\* exceeds the input's length, each iteration hands the engine the
\* unconsumed suffix and advances read by what the engine took, and a
\* write that has started eventually returns.
C20_WriteTerminates ==
    /\ [][(pc = "write" /\ pc' = "write") =>
            /\ read' >= read
            /\ read' <= Len(wbuf)
            /\ zbuff'.taken = zbuff.taken \o SubSeq(wbuf, read + 1, read')]_vars
    /\ (pc = "write") ~> (pc = "idle")

C20_Witness ==
    /\ WriteReturnedOk
    /\ Len(wbuf) = 2
    /\ zbuff.inBuff = <<>>
    /\ zbuff.outBuff # <<>>

====
